---- MODULE Spec2Model ----
(***************************************************************************)
(* Ride dispatch and trip lifecycle of the taxi-line platform: the         *)
(* Firestore documents (drivers, tripRequests, trips, driverRequests,      *)
(* payments, system/config), the callable functions that change them, the  *)
(* scheduled expireStaleTrips job, the per-process system config cache and *)
(* the driver app's online/offline toggle.                                 *)
(*                                                                         *)
(* A Firestore transaction is one atomic step.  A callable that awaits     *)
(* several independent store operations is one step per operation, with    *)
(* its position kept in calls[c].pc.                                       *)
(***************************************************************************)
EXTENDS Integers, FiniteSets, Sequences, TLC

(* ----------------------------- bounds ---------------------------------- *)
NumDrivers == 2
NumPassengers == 2
MaxRequests == 2
NumProcs == 2
MaxLoc == 0
MaxDistance == 4000

(* ------------------------ program constants ---------------------------- *)
TRIP_SEARCH_TIMEOUT_SECONDS == 120
DRIVER_ARRIVAL_TIMEOUT_SECONDS == 300
SWEEP_PERIOD_SECONDS == 60
CALL_TIMEOUT_SECONDS == 30
CACHE_TTL_MS == 10000
MS_PER_SECOND == 1000
MAX_ACTIVE_TRIPS_PER_DRIVER == 1
MAX_ACTIVE_TRIPS_PER_PASSENGER == 1
DRIVER_RESPONSE_TIMEOUT_SECONDS == 20
MAX_DRIVER_SEARCH_RADIUS_KM == 15
MINIMUM_PRICE_ILS == 5
RATE_KM_PER_ILS == 2
DISTANCE_ROUNDING_PER_KM == 10

Drivers == 1..NumDrivers
Passengers == 1..NumPassengers
Calls == 1..MaxRequests
RequestIds == 1..MaxRequests
TripIds == 1..MaxRequests
Procs == 1..NumProcs
Managers == {"manager", "admin"}
Roles == {"manager", "admin", "passenger"}
Locations == 0..MaxLoc

NoTrip == 0
NoDriver == 0
NoRequest == 0
NoLoc == -1
NoTime == -1
(* ratings/<tripId> does not exist; the document is kept with its trip *)
NoRating == 0
(* SubmitRatingSchema: rating is an integer from 1 to 5 *)
MIN_RATING == 1
MAX_RATING == 5
Ratings == {MIN_RATING, MAX_RATING}

(* TripStatus values and the two status groups of trip-status.enum.ts *)
ACTIVE_TRIP_STATUSES == {"pending", "accepted", "driver_arrived", "in_progress"}
TERMINAL_TRIP_STATUSES ==
  {"completed", "cancelled_by_passenger", "cancelled_by_driver",
   "cancelled_by_system", "no_driver_available"}
PASSENGER_CANCELLABLE_STATUSES == {"pending", "accepted"}
DRIVER_CANCELLABLE_STATUSES == {"pending", "accepted"}

DEFAULT_CONFIG == [tripsEnabled |-> TRUE]

(* ------------------------------ pricing --------------------------------- *)
(* A distance is a whole number of hundredths of a kilometre, a rounded    *)
(* distance a whole number of tenths, a price a whole number of ILS.       *)
(* RATE_PER_KM is 0.5: one ILS for RATE_KM_PER_ILS kilometres.  The code   *)
(* computes in doubles; for every distance up to MaxDistance the doubles   *)
(* give the values of the whole-number arithmetic below.                   *)
HundredthsPerKm == DISTANCE_ROUNDING_PER_KM * DISTANCE_ROUNDING_PER_KM
Distances == 0..MaxDistance
WholeTenths == {d \in Distances : d % DISTANCE_ROUNDING_PER_KM = 0}

Max(a, b) == IF a >= b THEN a ELSE b

(* Math.ceil(a / b) *)
CeilDiv(a, b) == (a + b - 1) \div b

(* Math.ceil(distanceKm / 0.1) * 0.1, in tenths of a kilometre *)
roundDistanceKm(distanceKm) ==
  CeilDiv(distanceKm, HundredthsPerKm \div DISTANCE_ROUNDING_PER_KM)

(* tenths of a kilometre that one ILS buys *)
TenthsPerIls == RATE_KM_PER_ILS * DISTANCE_ROUNDING_PER_KM

calculatePriceRoundingDown(distanceKm) ==
  Max(roundDistanceKm(distanceKm), MINIMUM_PRICE_ILS * TenthsPerIls) \div TenthsPerIls

(* Math.ceil(Math.max(roundedDistance * RATE_PER_KM, MINIMUM_PRICE_ILS)) *)
calculatePrice(distanceKm) ==
  CeilDiv(Max(roundDistanceKm(distanceKm), MINIMUM_PRICE_ILS * TenthsPerIls),
          TenthsPerIls)

(* ------------------------------- time ----------------------------------- *)
(* A timestamp is kept as its age, the seconds since it was taken.  An age *)
(* stops growing at the first value that every comparison made with it     *)
(* tells from no younger one.                                              *)
CfgTickSeconds == CACHE_TTL_MS \div (2 * MS_PER_SECOND)
RequestAgeCap == TRIP_SEARCH_TIMEOUT_SECONDS + SWEEP_PERIOD_SECONDS
AcceptedAgeCap == DRIVER_ARRIVAL_TIMEOUT_SECONDS + SWEEP_PERIOD_SECONDS
OfferAgeCap == SWEEP_PERIOD_SECONDS
CacheAgeCap == CACHE_TTL_MS \div MS_PER_SECOND
FalseAgeCap == CacheAgeCap + CALL_TIMEOUT_SECONDS + CfgTickSeconds

Older(age, step, cap) ==
  IF age = NoTime THEN NoTime
  ELSE IF age + step >= cap THEN cap
  ELSE age + step

VARIABLES
  drivers,    \* drivers/<driverId>
  requests,   \* tripRequests/<requestId>
  trips,      \* trips/<tripId>
  offers,     \* driverRequests/<trips[t].driverId>/requests/<t>
  payments,   \* payments/payment_<tripId>
  config,     \* system/config
  cache,      \* per process: configCache and cacheTimestamp
  calls,      \* createTripRequest invocations in flight
  sweeper,    \* the expireStaleTrips run in flight
  toggle,     \* the managerToggleTrips invocation in flight
  falseAge    \* history: age of the write that made the stored tripsEnabled false

vars == <<drivers, requests, trips, offers, payments, config, cache,
          calls, sweeper, toggle, falseAge>>

store == <<drivers, requests, trips, offers, payments>>

NoDriverDoc ==
  [exists |-> FALSE, isOnline |-> FALSE, isAvailable |-> FALSE,
   lastLocation |-> NoLoc, currentTripId |-> NoTrip]
NoRequestDoc ==
  [status |-> "none", passengerId |-> 0, createdAge |-> NoTime,
   matchedDriverId |-> NoDriver, matchedTripId |-> NoTrip,
   estimatedDistanceKm |-> 0, estimatedPriceIls |-> 0, pickup |-> NoLoc,
   expirationReason |-> "none"]
NoTripDoc ==
  [status |-> "none", passengerId |-> 0, driverId |-> NoDriver,
   paymentStatus |-> "none", createdAge |-> NoTime, acceptedAge |-> NoTime,
   estimatedDistanceKm |-> 0, estimatedPriceIls |-> 0, fareAmount |-> 0,
   finalPriceIls |-> 0, cancellationReason |-> "none", rating |-> NoRating]
NoPaymentDoc == [status |-> "none", amount |-> 0]
IdleCall ==
  [pc |-> "idle", proc |-> 0, passengerId |-> 0, age |-> NoTime,
   cfgVal |-> TRUE, cfgSrc |-> "none", requestId |-> NoRequest,
   sel |-> NoDriver, distanceKm |-> 0, serverCalculatedPriceIls |-> 0,
   tripId |-> NoTrip, rating |-> NoRating]
IdleSweeper == [pc |-> "idle", todo |-> {}]
IdleToggle == [pc |-> "idle", proc |-> 0]
(* configCache = null (present = FALSE); cacheTimestamp = 0 *)
EmptyCache == [present |-> FALSE, tripsEnabled |-> TRUE, cacheAge |-> CacheAgeCap]

Init ==
  /\ drivers = [d \in Drivers |-> NoDriverDoc]
  /\ requests = [r \in RequestIds |-> NoRequestDoc]
  /\ trips = [t \in TripIds |-> NoTripDoc]
  /\ offers = [t \in TripIds |-> "none"]
  /\ payments = [t \in TripIds |-> NoPaymentDoc]
  /\ config = [exists |-> FALSE, tripsEnabled |-> TRUE]
  /\ cache = [p \in Procs |-> EmptyCache]
  /\ calls = [c \in Calls |-> IdleCall]
  /\ sweeper = IdleSweeper
  /\ toggle = IdleToggle
  /\ falseAge = NoTime

IsActive(t) == trips[t].status \in ACTIVE_TRIP_STATUSES
IsTerminal(t) == trips[t].status \in TERMINAL_TRIP_STATUSES

ReleaseDriverKeepingTrip(d) ==
  [drivers EXCEPT ![d].exists = TRUE, ![d].isAvailable = TRUE]

ClaimDriverLeavingAvailable(d, t) ==
  [drivers EXCEPT ![d].exists = TRUE, ![d].currentTripId = t]

(* drivers/<d>: isAvailable: true, currentTripId: null *)
ReleaseDriver(d) ==
  [drivers EXCEPT ![d].exists = TRUE, ![d].isAvailable = TRUE,
                  ![d].currentTripId = NoTrip]

(* drivers/<d>: isAvailable: false, currentTripId: t *)
ClaimDriver(d, t) ==
  [drivers EXCEPT ![d].exists = TRUE, ![d].isAvailable = FALSE,
                  ![d].currentTripId = t]

(* ----------------- driver app: online / offline toggle ------------------ *)
(* setDoc(drivers/<d>, {isOnline, isAvailable, lastLocation?}, merge) *)
OnlineFields(doc, loc) ==
  [doc EXCEPT !.exists = TRUE, !.isOnline = TRUE, !.isAvailable = TRUE,
              !.lastLocation = loc]

OfflineFields(doc) ==
  [doc EXCEPT !.exists = TRUE, !.isOnline = FALSE, !.isAvailable = FALSE]

SetDriverOnline(d, loc) ==
  /\ drivers' = [drivers EXCEPT ![d] = OnlineFields(drivers[d], loc)]
  /\ UNCHANGED <<requests, trips, offers, payments, config, cache,
                 calls, sweeper, toggle, falseAge>>

SetDriverOffline(d) ==
  /\ drivers' = [drivers EXCEPT ![d] = OfflineFields(drivers[d])]
  /\ UNCHANGED <<requests, trips, offers, payments, config, cache,
                 calls, sweeper, toggle, falseAge>>

(* ------------------- core/config: getSystemConfig ---------------------- *)
(* configCache && (now - cacheTimestamp) < CACHE_TTL_MS *)
CacheValid(p) ==
  /\ cache[p].present
  /\ cache[p].cacheAge * MS_PER_SECOND < CACHE_TTL_MS

ConfigValueIgnoringDoc(doc) == DEFAULT_CONFIG.tripsEnabled

(* the value a config document yields: data?.tripsEnabled ?? default *)
ConfigValue(doc) == IF doc.exists THEN doc.tripsEnabled ELSE DEFAULT_CONFIG.tripsEnabled

FinishCall(c) == calls' = [calls EXCEPT ![c] = IdleCall]

(* handleError: the error kind a thrown error class is reported as *)
ErrorKind(cls) ==
  CASE cls = "UnauthorizedError" -> "unauthenticated"
    [] cls = "ValidationError" -> "invalid_argument"
    [] cls = "NotFoundError" -> "not_found"
    [] cls = "ForbiddenError" -> "forbidden"
    [] OTHER -> "internal"

(* the classes createTripRequest throws at step 0 and at step 3 *)
KILL_SWITCH_ERROR == "ForbiddenError"
ACTIVE_TRIP_ERROR == "ForbiddenError"

(* what step 0 answers once areTripsEnabled() has returned v *)
AdmissionResult(v) == IF v THEN "ok" ELSE ErrorKind(KILL_SWITCH_ERROR)

(* createTripRequest step 0 once areTripsEnabled() has returned v *)
Admission(c, call, v) ==
  IF v
    THEN calls' = [calls EXCEPT ![c] = [call EXCEPT !.pc = "activeCheck", !.cfgVal = v]]
    ELSE FinishCall(c)

PendingCreates == {c \in Calls : calls[c].pc \in {"cfgRead", "cfgInit", "cfgCont", "activeCheck", "createReq"}}
ExistingRequests == {r \in RequestIds : requests[r].status # "none"}

(* A passenger invokes createTripRequest in process p; getSystemConfig     *)
(* takes now and answers from the cache when it is still valid.            *)
StartRequest(c, pass, p) ==
  /\ calls[c].pc = "idle"
  /\ \A c2 \in Calls : c2 < c => calls[c2].pc # "idle"
  /\ Cardinality(PendingCreates) + Cardinality(ExistingRequests) < MaxRequests
  /\ LET call == [IdleCall EXCEPT !.proc = p, !.passengerId = pass, !.age = 0]
     IN IF CacheValid(p)
          THEN Admission(c, [call EXCEPT !.cfgSrc = "cache"], cache[p].tripsEnabled)
          ELSE calls' = [calls EXCEPT ![c] = [call EXCEPT !.pc = "cfgRead"]]
  /\ UNCHANGED <<store, config, cache, sweeper, toggle, falseAge>>

(* db.collection('system').doc('config').get() *)
ConfigRead(c) ==
  /\ calls[c].pc = "cfgRead"
  /\ calls' = [calls EXCEPT ![c].pc = IF config.exists THEN "cfgCont" ELSE "cfgInit",
                            ![c].cfgVal = ConfigValue(config),
                            ![c].cfgSrc = "store"]
  /\ UNCHANGED <<store, config, cache, sweeper, toggle, falseAge>>

(* the read (or the write of the defaults) throws: return DEFAULT_CONFIG *)
ConfigReadFails(c) ==
  /\ calls[c].pc \in {"cfgRead", "cfgInit"}
  /\ Admission(c, [calls[c] EXCEPT !.cfgSrc = "error"], DEFAULT_CONFIG.tripsEnabled)
  /\ UNCHANGED <<store, config, cache, sweeper, toggle, falseAge>>

(* document missing: set({...DEFAULT_CONFIG, createdAt}) replaces the document *)
ConfigInit(c) ==
  /\ calls[c].pc = "cfgInit"
  /\ config' = [exists |-> TRUE, tripsEnabled |-> DEFAULT_CONFIG.tripsEnabled]
  /\ falseAge' = NoTime
  /\ calls' = [calls EXCEPT ![c].pc = "cfgCont",
                            ![c].cfgVal = DEFAULT_CONFIG.tripsEnabled]
  /\ UNCHANGED <<store, cache, sweeper, toggle>>

(* configCache = ...; cacheTimestamp = now; return configCache *)
ConfigCont(c) ==
  /\ calls[c].pc = "cfgCont"
  /\ cache' = [cache EXCEPT ![calls[c].proc] =
                 [present |-> TRUE, tripsEnabled |-> calls[c].cfgVal,
                  cacheAge |-> Older(calls[c].age, 0, CacheAgeCap)]]
  /\ Admission(c, calls[c], calls[c].cfgVal)
  /\ UNCHANGED <<store, config, sweeper, toggle, falseAge>>

(* ---------------------- createTripRequest, steps 3-8 -------------------- *)
(* trips where passengerId == p and status in ACTIVE_TRIP_STATUSES, limit 1 *)
PassengerActiveTrips(pass) ==
  {t \in TripIds : trips[t].passengerId = pass /\ IsActive(t)}

ActiveCheck(c) ==
  /\ calls[c].pc = "activeCheck"
  /\ IF PassengerActiveTrips(calls[c].passengerId) # {}
       THEN FinishCall(c)
       ELSE calls' = [calls EXCEPT ![c] =
              [IdleCall EXCEPT !.pc = "createReq", !.age = calls[c].age,
                               !.passengerId = calls[c].passengerId]]
  /\ UNCHANGED <<store, config, cache, sweeper, toggle, falseAge>>

(* db.collection(...).doc(): a document id nothing else uses *)
FreshRequestId == CHOOSE r \in RequestIds :
  /\ requests[r].status = "none"
  /\ \A r2 \in RequestIds : r2 < r => requests[r2].status # "none"
FreshTripId == CHOOSE t \in TripIds :
  /\ trips[t].status = "none"
  /\ \A t2 \in TripIds : t2 < t => trips[t2].status # "none"

ClientPrice(est) == est.priceIls

(* serverCalculatedPriceIls = calculatePrice(estimate.distanceKm) *)
ServerPrice(est) == calculatePrice(est.distanceKm)

(* tripRequestRef.set({..., estimatedDistanceKm, estimatedPriceIls,       *)
(* pickup, status: OPEN, createdAt}); est and pickup are the estimate and *)
(* the pickup of the call's payload                                       *)
CreateRequest(c, est, pickup) ==
  /\ calls[c].pc = "createReq"
  /\ LET r == FreshRequestId
     IN /\ requests' = [requests EXCEPT ![r] =
             [NoRequestDoc EXCEPT !.status = "open",
                                  !.passengerId = calls[c].passengerId,
                                  !.createdAge = 0,
                                  !.estimatedDistanceKm = est.distanceKm,
                                  !.estimatedPriceIls = ServerPrice(est),
                                  !.pickup = pickup]]
        /\ calls' = [calls EXCEPT ![c].pc = "queryDrivers", ![c].requestId = r,
                                  ![c].distanceKm = est.distanceKm,
                                  ![c].serverCalculatedPriceIls = ServerPrice(est)]
  /\ UNCHANGED <<drivers, trips, offers, payments, config, cache,
                 sweeper, toggle, falseAge>>

(* drivers where isOnline == true and isAvailable == true *)
AvailableDrivers == {d \in Drivers : drivers[d].exists /\ drivers[d].isOnline /\ drivers[d].isAvailable}

(* haversineDistance along one road: positions are whole steps on a line *)
Distance(a, b) == IF a >= b THEN a - b ELSE b - a

LastDriver(cands, pickup) == CHOOSE d \in cands : \A e \in cands : d >= e

(* driversWithDistance after the stable sort, element [0] *)
NearestDriver(cands, pickup) ==
  CHOOSE d \in cands :
    \A e \in cands :
      \/ Distance(pickup, drivers[d].lastLocation) < Distance(pickup, drivers[e].lastLocation)
      \/ /\ Distance(pickup, drivers[d].lastLocation) = Distance(pickup, drivers[e].lastLocation)
         /\ d <= e

WithoutLocationCheck(ds) == ds

(* if (!driverData.lastLocation) return; *)
WithLocation(ds) == {d \in ds : drivers[d].lastLocation # NoLoc}

(* the answer of the driver search: both early returns carry the status *)
(* searching, a non-empty driversWithDistance goes on to the claim       *)
SearchResult(ds) == IF WithLocation(ds) = {} THEN "searching" ELSE "selected"

QueryDrivers(c) ==
  /\ calls[c].pc = "queryDrivers"
  /\ IF SearchResult(AvailableDrivers) = "searching"
       THEN FinishCall(c)
       ELSE calls' = [calls EXCEPT ![c].pc = "claim",
                        ![c].sel = NearestDriver(WithLocation(AvailableDrivers),
                                                 requests[calls[c].requestId].pickup)]
  /\ UNCHANGED <<store, config, cache, sweeper, toggle, falseAge>>

DriverStillExists(doc) == doc.exists

(* the re-check of the claim transaction on the driver it has just read *)
DriverStillAvailable(doc) == doc.exists /\ doc.isOnline /\ doc.isAvailable

(* what the invocation at its claim transaction is about to get *)
ClaimResult(c) ==
  IF DriverStillAvailable(drivers[calls[c].sel]) THEN "matched" ELSE "not_found"

RequestLeftOpen(doc, d, t) == doc

(* transaction.update(tripRequestRef, {status: MATCHED, matchedDriverId, matchedTripId}) *)
MatchedRequest(doc, d, t) ==
  [doc EXCEPT !.status = "matched", !.matchedDriverId = d, !.matchedTripId = t]

(* db.runTransaction: re-read driver, create trip, claim driver, create *)
(* the driver request, set the trip request to MATCHED                  *)
ClaimTransaction(c) ==
  /\ calls[c].pc = "claim"
  /\ LET d == calls[c].sel
         r == calls[c].requestId
         t == FreshTripId
     IN IF ClaimResult(c) # "matched"
          THEN UNCHANGED store
          ELSE /\ trips' = [trips EXCEPT ![t] =
                    [NoTripDoc EXCEPT
                       !.status = "pending",
                       !.passengerId = calls[c].passengerId,
                       !.driverId = d,
                       !.paymentStatus = "pending",
                       !.createdAge = 0,
                       !.estimatedDistanceKm = calls[c].distanceKm,
                       !.estimatedPriceIls = calls[c].serverCalculatedPriceIls,
                       !.fareAmount = calls[c].serverCalculatedPriceIls]]
               /\ drivers' = ClaimDriver(d, t)
               /\ offers' = [offers EXCEPT ![t] = "pending"]
               /\ requests' = [requests EXCEPT ![r] = MatchedRequest(requests[r], d, t)]
               /\ UNCHANGED payments
  /\ FinishCall(c)
  /\ UNCHANGED <<config, cache, sweeper, toggle, falseAge>>

(* --------------------------- store transactions ------------------------- *)
(* Transaction.get throws once the transaction has buffered a write, so a  *)
(* transaction body runs to its commit only if no read follows a write.    *)
ReadsBeforeWrites(ops) ==
  \A i \in DOMAIN ops : \A j \in DOMAIN ops :
    (ops[i] = "write" /\ ops[j] = "read") => j < i

(* the order of transactional operations of each callable's success path *)
AcceptOps == <<"read", "read", "write", "write", "write">>
RejectOps == <<"read", "read", "write", "write", "write">>
CompleteOps == <<"read", "read", "write", "write", "write">>
PassengerCancelOps == <<"read", "write", "write", "read", "write">>
DriverCancelOps == <<"read", "write", "write", "read", "write">>
ManagerCancelOps == <<"read", "write", "write", "read", "write">>

(* driverRequests/<d>/requests/<t> exists *)
OfferExists(d, t) == offers[t] # "none" /\ trips[t].driverId = d

(* A callable that throws leaves every document as it was: only a call    *)
(* whose result is "ok" is a step.  The ...Result operators give the       *)
(* answer a call made in the current state gets.                           *)

(* ------------------------- acceptTripRequest ---------------------------- *)
AcceptResult(d, t) ==
  IF ~OfferExists(d, t) THEN "not_found"
  ELSE IF offers[t] # "pending" THEN "forbidden"
  ELSE IF trips[t].status = "none" THEN "not_found"
  ELSE IF trips[t].status # "pending" THEN "forbidden"
  ELSE IF trips[t].driverId # d THEN "forbidden"
  ELSE IF ~ReadsBeforeWrites(AcceptOps) THEN "internal"
  ELSE "ok"

AcceptLeavingOffer(d, t) ==
  /\ trips' = [trips EXCEPT ![t].status = "accepted", ![t].acceptedAge = 0]
  /\ drivers' = ClaimDriver(d, t)
  /\ UNCHANGED <<requests, offers, payments>>

AcceptCommit(d, t) ==
  /\ trips' = [trips EXCEPT ![t].status = "accepted", ![t].acceptedAge = 0]
  /\ offers' = [offers EXCEPT ![t] = "accepted"]
  /\ drivers' = ClaimDriver(d, t)
  /\ UNCHANGED <<requests, payments>>

AcceptTripRequest(d, t) ==
  /\ AcceptResult(d, t) = "ok"
  /\ AcceptCommit(d, t)
  /\ UNCHANGED <<config, cache, calls, sweeper, toggle, falseAge>>

(* ------------------------- rejectTripRequest ---------------------------- *)
RejectResultStrict(d, t) ==
  IF ~OfferExists(d, t) THEN "not_found"
  ELSE IF offers[t] # "pending" THEN "forbidden"
  ELSE IF trips[t].status = "none" THEN "not_found"
  ELSE "ok"

(* "noop": the offer is no longer pending, success without a write *)
RejectResult(d, t) ==
  IF ~OfferExists(d, t) THEN "not_found"
  ELSE IF offers[t] # "pending" THEN "noop"
  ELSE IF trips[t].status = "none" THEN "not_found"
  ELSE IF ~ReadsBeforeWrites(RejectOps) THEN "internal"
  ELSE "ok"

RejectCommitLeavingOffer(d, t) ==
  /\ trips' = IF trips[t].status = "pending" /\ trips[t].driverId = d
                THEN [trips EXCEPT ![t].status = "no_driver_available"]
                ELSE trips
  /\ drivers' = ReleaseDriver(d)
  /\ UNCHANGED <<requests, offers, payments>>

RejectCommit(d, t) ==
  /\ offers' = [offers EXCEPT ![t] = "rejected"]
  /\ trips' = IF trips[t].status = "pending" /\ trips[t].driverId = d
                THEN [trips EXCEPT ![t].status = "no_driver_available"]
                ELSE trips
  /\ drivers' = ReleaseDriver(d)
  /\ UNCHANGED <<requests, payments>>

RejectTripRequest(d, t) ==
  /\ RejectResult(d, t) = "ok"
  /\ RejectCommit(d, t)
  /\ UNCHANGED <<config, cache, calls, sweeper, toggle, falseAge>>

(* ---------------- driverArrived, startTrip (strict pre-state) ----------- *)
AdvanceResult(d, t, from) ==
  IF trips[t].status = "none" THEN "not_found"
  ELSE IF trips[t].driverId # d THEN "forbidden"
  ELSE IF trips[t].status # from THEN "forbidden"
  ELSE "ok"

Advance(d, t, from, to) ==
  /\ AdvanceResult(d, t, from) = "ok"
  /\ trips' = [trips EXCEPT ![t].status = to]
  /\ UNCHANGED <<drivers, requests, offers, payments, config, cache,
                 calls, sweeper, toggle, falseAge>>

DriverArrived(d, t) == Advance(d, t, "accepted", "driver_arrived")
StartTrip(d, t) == Advance(d, t, "driver_arrived", "in_progress")

(* ----------------------------- completeTrip ----------------------------- *)
CompleteResultGated(d, t) ==
  IF config.exists /\ ~config.tripsEnabled THEN "service_disabled"
  ELSE IF trips[t].status = "none" THEN "not_found"
  ELSE IF trips[t].driverId # d THEN "forbidden"
  ELSE IF trips[t].status # "in_progress" THEN "forbidden"
  ELSE "ok"

CompleteResultAgain(d, t) ==
  IF trips[t].status = "none" THEN "not_found"
  ELSE IF trips[t].driverId # d THEN "forbidden"
  ELSE IF trips[t].status \notin {"in_progress", "completed"} THEN "forbidden"
  ELSE "ok"

CompleteResult(d, t) ==
  IF trips[t].status = "none" THEN "not_found"
  ELSE IF trips[t].driverId # d THEN "forbidden"
  ELSE IF trips[t].status # "in_progress" THEN "forbidden"
  ELSE IF ~ReadsBeforeWrites(CompleteOps) THEN "internal"
  ELSE "ok"

CompleteWithoutPayment(d, t) ==
  /\ trips' = [trips EXCEPT ![t].status = "completed",
                            ![t].finalPriceIls = trips[t].estimatedPriceIls]
  /\ drivers' = ReleaseDriver(d)
  /\ UNCHANGED <<requests, offers, payments>>

CompleteCommit(d, t) ==
  /\ trips' = [trips EXCEPT ![t].status = "completed",
                            ![t].finalPriceIls = trips[t].estimatedPriceIls]
  /\ drivers' = ReleaseDriver(d)
  /\ payments' = IF payments[t].status = "none"
                   THEN [payments EXCEPT ![t] =
                          [status |-> "pending", amount |-> trips[t].estimatedPriceIls]]
                   ELSE payments
  /\ UNCHANGED <<requests, offers>>

CompleteTrip(d, t) ==
  /\ CompleteResult(d, t) = "ok"
  /\ CompleteCommit(d, t)
  /\ UNCHANGED <<config, cache, calls, sweeper, toggle, falseAge>>

(* --------------------------- confirmCashPayment ------------------------- *)
(* tripRef.get(), the checks, tripRef.update({paymentStatus: PAID}).      *)
(* ConfirmCashPayment is an invocation with nothing between its read and  *)
(* its update; ConfirmRead and ConfirmWrite are the two steps of one that *)
(* other invocations interleave with.                                     *)
ConfirmResult(d, t) ==
  IF trips[t].status = "none" THEN "not_found"
  ELSE IF trips[t].driverId # d THEN "forbidden"
  ELSE IF trips[t].status # "completed" THEN "invalid_argument"
  ELSE IF trips[t].paymentStatus = "paid" THEN "invalid_argument"
  ELSE "ok"

ConfirmCashPayment(d, t) ==
  /\ ConfirmResult(d, t) = "ok"
  /\ trips' = [trips EXCEPT ![t].paymentStatus = "paid"]
  /\ UNCHANGED <<drivers, requests, offers, payments, config, cache,
                 calls, sweeper, toggle, falseAge>>

(* await tripRef.get() and the checks on the snapshot *)
ConfirmRead(c, d, t) ==
  /\ calls[c].pc = "idle"
  /\ ConfirmResult(d, t) = "ok"
  /\ calls' = [calls EXCEPT ![c] = [IdleCall EXCEPT !.pc = "confirmWrite", !.tripId = t]]
  /\ UNCHANGED <<store, config, cache, sweeper, toggle, falseAge>>

(* await tripRef.update({paymentStatus: PAID, paidAt}); success returned *)
ConfirmWrite(c) ==
  /\ calls[c].pc = "confirmWrite"
  /\ trips' = [trips EXCEPT ![calls[c].tripId].paymentStatus = "paid"]
  /\ FinishCall(c)
  /\ UNCHANGED <<drivers, requests, offers, payments, config, cache,
                 sweeper, toggle, falseAge>>

(* ------------------------------ submitRating ---------------------------- *)
(* the checks on the trip snapshot *)
RatingTripResult(pass, t) ==
  IF trips[t].status = "none" THEN "not_found"
  ELSE IF trips[t].passengerId # pass THEN "forbidden"
  ELSE IF trips[t].status # "completed" THEN "forbidden"
  ELSE "ok"

(* the check on the snapshot of ratings/<tripId> *)
RatingResult(t) == IF trips[t].rating # NoRating THEN "forbidden" ELSE "ok"

(* await tripRef.get() *)
RatingTripRead(c, pass, t, r) ==
  /\ calls[c].pc = "idle"
  /\ RatingTripResult(pass, t) = "ok"
  /\ calls' = [calls EXCEPT ![c] = [IdleCall EXCEPT !.pc = "ratingGet",
                  !.passengerId = pass, !.tripId = t, !.rating = r]]
  /\ UNCHANGED <<store, config, cache, sweeper, toggle, falseAge>>

(* await ratingRef.get(); ForbiddenError when the rating exists *)
RatingRead(c) ==
  /\ calls[c].pc = "ratingGet"
  /\ IF RatingResult(calls[c].tripId) = "ok"
       THEN calls' = [calls EXCEPT ![c].pc = "ratingSet"]
       ELSE FinishCall(c)
  /\ UNCHANGED <<store, config, cache, sweeper, toggle, falseAge>>

(* await ratingRef.set(ratingData); success returned *)
RatingWrite(c) ==
  /\ calls[c].pc = "ratingSet"
  /\ trips' = [trips EXCEPT ![calls[c].tripId].rating = calls[c].rating]
  /\ FinishCall(c)
  /\ UNCHANGED <<drivers, requests, offers, payments, config, cache,
                 sweeper, toggle, falseAge>>

SubmitRating(cs, ps) ==
  \/ \E c \in cs, pass \in ps, t \in TripIds, r \in Ratings :
       RatingTripRead(c, pass, t, r)
  \/ \E c \in cs : RatingRead(c)
  \/ \E c \in cs : RatingWrite(c)

(* --------- passengerCancelTrip, driverCancelTrip, managerForceCancel ---- *)
PassengerCancelByAnyone(pass, t) ==
  IF trips[t].status = "none" THEN "not_found"
  ELSE IF trips[t].status \notin PASSENGER_CANCELLABLE_STATUSES THEN "forbidden"
  ELSE "internal"

PassengerCancelResult(pass, t) ==
  IF trips[t].status = "none" THEN "not_found"
  ELSE IF trips[t].passengerId # pass THEN "forbidden"
  ELSE IF trips[t].status \notin PASSENGER_CANCELLABLE_STATUSES THEN "forbidden"
  ELSE IF ~ReadsBeforeWrites(PassengerCancelOps) THEN "internal"
  ELSE "ok"

DriverCancelResult(d, t) ==
  IF trips[t].status = "none" THEN "not_found"
  ELSE IF trips[t].driverId # d THEN "forbidden"
  ELSE IF trips[t].status \notin DRIVER_CANCELLABLE_STATUSES THEN "forbidden"
  ELSE IF ~ReadsBeforeWrites(DriverCancelOps) THEN "internal"
  ELSE "ok"

ManagerCancelResult(role, t) ==
  IF role \notin Managers THEN "forbidden"
  ELSE IF trips[t].status = "none" THEN "not_found"
  ELSE IF ~IsActive(t) THEN "forbidden"
  ELSE IF ~ReadsBeforeWrites(ManagerCancelOps) THEN "internal"
  ELSE "ok"

CancelCommit(t, to) ==
  /\ trips' = [trips EXCEPT ![t].status = to]
  /\ drivers' = ReleaseDriver(trips[t].driverId)
  /\ offers' = IF offers[t] # "none" THEN [offers EXCEPT ![t] = "cancelled"] ELSE offers
  /\ UNCHANGED <<requests, payments>>

PassengerCancelTrip(pass, t) ==
  /\ PassengerCancelResult(pass, t) = "ok"
  /\ CancelCommit(t, "cancelled_by_passenger")
  /\ UNCHANGED <<config, cache, calls, sweeper, toggle, falseAge>>

DriverCancelTrip(d, t) ==
  /\ DriverCancelResult(d, t) = "ok"
  /\ CancelCommit(t, "cancelled_by_driver")
  /\ UNCHANGED <<config, cache, calls, sweeper, toggle, falseAge>>

ManagerForceCancelTrip(role, t) ==
  /\ ManagerCancelResult(role, t) = "ok"
  /\ CancelCommit(t, "cancelled_by_system")
  /\ UNCHANGED <<config, cache, calls, sweeper, toggle, falseAge>>

(* --------------------- expireStaleTrips (scheduled) --------------------- *)
OpenRequests == {r \in RequestIds : requests[r].status = "open"}

(* tripRequests where status == OPEN and createdAt < now - search timeout *)
StaleRequests ==
  {r \in RequestIds : /\ requests[r].status = "open"
                      /\ requests[r].createdAge > TRIP_SEARCH_TIMEOUT_SECONDS}

(* trips where status == ACCEPTED and acceptedAt < now - arrival timeout *)
StaleAcceptedTrips ==
  {x \in TripIds : /\ trips[x].status = "accepted"
                   /\ trips[x].acceptedAge > DRIVER_ARRIVAL_TIMEOUT_SECONDS}

First(S) == CHOOSE x \in S : \A y \in S : x <= y

(* Both cutoffs come from the now taken at the start of the run, and no   *)
(* age grows while the run is in flight (see TickMinute).  A run that      *)
(* starts with nothing stale finds nothing in either query (acceptedAt is  *)
(* written once) and writes nothing: it is not a step.                     *)
SweepStart ==
  /\ sweeper.pc = "idle"
  /\ StaleRequests # {} \/ StaleAcceptedTrips # {}
  /\ sweeper' = [pc |-> "requests", todo |-> StaleRequests]
  /\ UNCHANGED <<store, config, cache, calls, toggle, falseAge>>

(* the transaction of one stale request: update(status: EXPIRED,          *)
(* expirationReason: 'no_driver_found'), no read                           *)
ExpireRequest(r) ==
  [requests EXCEPT ![r].status = "expired",
                   ![r].expirationReason = "no_driver_found"]

SweepRequest ==
  /\ sweeper.pc = "requests"
  /\ sweeper.todo # {}
  /\ requests' = ExpireRequest(First(sweeper.todo))
  /\ sweeper' = [sweeper EXCEPT !.todo = @ \ {First(sweeper.todo)}]
  /\ UNCHANGED <<drivers, trips, offers, payments, config, cache, calls,
                 toggle, falseAge>>

(* the run returns once the loop over the accepted trips is through *)
TripsLoop(todo) ==
  IF todo = {} THEN IdleSweeper ELSE [pc |-> "trips", todo |-> todo]

SweepTripsQuery ==
  /\ sweeper.pc = "requests"
  /\ sweeper.todo = {}
  /\ sweeper' = TripsLoop(StaleAcceptedTrips)
  /\ UNCHANGED <<store, config, cache, calls, toggle, falseAge>>

TripLeftAccepted(t) == trips

(* the transaction of one stale accepted trip: two updates, no read *)
NoShowTrip(t) ==
  [trips EXCEPT ![t].status = "cancelled_by_system",
                ![t].cancellationReason = "driver_no_show"]

SweepTrip ==
  /\ sweeper.pc = "trips"
  /\ LET t == First(sweeper.todo)
     IN /\ trips' = NoShowTrip(t)
        /\ drivers' = ReleaseDriver(trips[t].driverId)
        /\ sweeper' = TripsLoop(sweeper.todo \ {t})
  /\ UNCHANGED <<requests, offers, payments, config, cache, calls,
                 toggle, falseAge>>

AbortBatch(todo) == {}

(* catch (error) { logger.error(...); errorCount++; }: the loop goes on   *)
(* with the next document of the snapshot                                 *)
SkipFailed(todo) == todo \ {First(todo)}

(* the transaction of one stale request throws: nothing is written *)
SweepRequestFails ==
  /\ sweeper.pc = "requests"
  /\ sweeper.todo # {}
  /\ sweeper' = [sweeper EXCEPT !.todo = SkipFailed(@)]
  /\ UNCHANGED <<store, config, cache, calls, toggle, falseAge>>

(* the transaction of one stale accepted trip throws: nothing is written *)
SweepTripFails ==
  /\ sweeper.pc = "trips"
  /\ sweeper' = TripsLoop(SkipFailed(sweeper.todo))
  /\ UNCHANGED <<store, config, cache, calls, toggle, falseAge>>

(* ------------- managerToggleTrips / managerToggleFeatureFlag ------------ *)
ToggleResult(role) == IF role \notin Managers THEN "forbidden" ELSE "ok"

(* configRef.set({tripsEnabled: enabled, ...}, merge) *)
ToggleWrite(enabled) == [exists |-> TRUE, tripsEnabled |-> enabled]

(* managerToggleTrips in process p up to its write of system/config *)
ManagerToggleTrips(role, enabled, p) ==
  /\ toggle.pc = "idle"
  /\ ToggleResult(role) = "ok"
  /\ config' = ToggleWrite(enabled)
  /\ falseAge' = IF enabled THEN NoTime
                 ELSE IF ConfigValue(config) THEN 0 ELSE falseAge
  /\ toggle' = [pc |-> "invalidate", proc |-> p]
  /\ UNCHANGED <<store, cache, calls, sweeper>>

(* configCache = null; cacheTimestamp = 0, in the process that served it *)
InvalidateConfigCache ==
  /\ toggle.pc = "invalidate"
  /\ cache' = [cache EXCEPT ![toggle.proc] = EmptyCache]
  /\ toggle' = IdleToggle
  /\ UNCHANGED <<store, config, calls, sweeper, falseAge>>

(* -------------------------------- clock --------------------------------- *)
(* createTripRequest has timeoutSeconds 30 and expireStaleTrips 60: no    *)
(* invocation is in flight across a whole sweep period.                    *)
Quiescent ==
  /\ sweeper.pc = "idle"
  /\ toggle.pc = "idle"
  /\ \A c \in Calls : calls[c].pc = "idle"

(* something the sweeper's cutoffs look at *)
Waiting ==
  \/ \E r \in RequestIds : requests[r].status = "open"
  \/ \E t \in TripIds : trips[t].status = "accepted"
  \/ \E t \in TripIds : trips[t].status = "pending"

OlderCaches(step) ==
  [p \in Procs |-> [cache[p] EXCEPT !.cacheAge = Older(@, step, CacheAgeCap)]]

(* a sweep period passes *)
TickMinute ==
  /\ Quiescent
  /\ Waiting
  /\ requests' = [r \in RequestIds |->
       [requests[r] EXCEPT !.createdAge = Older(@, SWEEP_PERIOD_SECONDS, RequestAgeCap)]]
  /\ trips' = [t \in TripIds |->
       [trips[t] EXCEPT !.createdAge = Older(@, SWEEP_PERIOD_SECONDS, OfferAgeCap),
                        !.acceptedAge = Older(@, SWEEP_PERIOD_SECONDS, AcceptedAgeCap)]]
  /\ cache' = OlderCaches(SWEEP_PERIOD_SECONDS)
  /\ falseAge' = Older(falseAge, SWEEP_PERIOD_SECONDS, FalseAgeCap)
  /\ UNCHANGED <<drivers, offers, payments, config, calls, sweeper, toggle>>

(* half a cache lifetime passes, within a sweep period: an invocation in  *)
(* flight is not yet timed out                                             *)
TickCfg ==
  /\ \A c \in Calls : calls[c].pc # "idle" =>
       calls[c].age + CfgTickSeconds < CALL_TIMEOUT_SECONDS
  /\ calls' = [c \in Calls |->
       [calls[c] EXCEPT !.age = Older(@, CfgTickSeconds, CALL_TIMEOUT_SECONDS)]]
  /\ cache' = OlderCaches(CfgTickSeconds)
  /\ falseAge' = Older(falseAge, CfgTickSeconds, FalseAgeCap)
  /\ UNCHANGED <<store, config, sweeper, toggle>>

(* the estimate of the specifications that leave prices alone *)
OneEstimate == {[distanceKm |-> MaxDistance, priceIls |-> MINIMUM_PRICE_ILS]}

(* the steps of createTripRequest invocations: cs of them at a time, made *)
(* by the passengers ps and served by the processes procs, with estimates *)
(* from ests and pickups from locs                                         *)
CreateTripRequest(cs, ps, procs, ests, locs) ==
  \/ \E c \in cs, pass \in ps, p \in procs : StartRequest(c, pass, p)
  \/ \E c \in cs : ConfigRead(c)
  \/ \E c \in cs : ConfigReadFails(c)
  \/ \E c \in cs : ConfigInit(c)
  \/ \E c \in cs : ConfigCont(c)
  \/ \E c \in cs : ActiveCheck(c)
  \/ \E c \in cs, est \in ests, pickup \in locs : CreateRequest(c, est, pickup)
  \/ \E c \in cs : QueryDrivers(c)
  \/ \E c \in cs : ClaimTransaction(c)

(* ---------------------------- trip lifecycle ---------------------------- *)
(* The kill switch is left alone and one process serves the callables.    *)
(* passengerCancelTrip, driverCancelTrip and managerForceCancelTrip are    *)
(* not steps: no call of them gets the result "ok".                        *)
Next ==
  \/ CreateTripRequest(Calls, Passengers, {First(Procs)}, OneEstimate, Locations)
  \/ \E d \in Drivers, loc \in Locations : SetDriverOnline(d, loc)
  \/ \E d \in Drivers : SetDriverOffline(d)
  \/ \E d \in Drivers, t \in TripIds : AcceptTripRequest(d, t)
  \/ \E d \in Drivers, t \in TripIds : RejectTripRequest(d, t)
  \/ \E d \in Drivers, t \in TripIds : DriverArrived(d, t)
  \/ \E d \in Drivers, t \in TripIds : StartTrip(d, t)
  \/ \E d \in Drivers, t \in TripIds : CompleteTrip(d, t)
  \/ SweepStart
  \/ SweepRequest
  \/ SweepTripsQuery
  \/ SweepTrip
  \/ TickMinute

Spec == Init /\ [][Next]_vars

(* ----------------------------- kill switch ------------------------------ *)
(* Managers toggle tripsEnabled while one passenger requests trips, one   *)
(* invocation at a time, in every process; the clock moves in steps of     *)
(* half a cache lifetime.                                                  *)
NextKill ==
  \/ CreateTripRequest({First(Calls)}, {First(Passengers)}, Procs, OneEstimate, Locations)
  \/ \E loc \in Locations : SetDriverOnline(First(Drivers), loc)
  \/ \E role \in Roles, enabled \in BOOLEAN, p \in Procs :
       ManagerToggleTrips(role, enabled, p)
  \/ InvalidateConfigCache
  \/ TickCfg

KillSpec == Init /\ [][NextKill]_vars

(* ------------------------ one trip at a time ---------------------------- *)
(* One passenger, one driver and one process: requests, the trip          *)
(* lifecycle up to the cash payment, the sweeper and the manager's toggle. *)
FlowDistances == {1, 1531, 2000, 3760}
FlowEstimates == [distanceKm : FlowDistances, priceIls : {MINIMUM_PRICE_ILS, 2 * MINIMUM_PRICE_ILS}]

Lifecycle(ds) ==
  \/ \E d \in ds, t \in TripIds : AcceptTripRequest(d, t)
  \/ \E d \in ds, t \in TripIds : RejectTripRequest(d, t)
  \/ \E d \in ds, t \in TripIds : DriverArrived(d, t)
  \/ \E d \in ds, t \in TripIds : StartTrip(d, t)
  \/ \E d \in ds, t \in TripIds : CompleteTrip(d, t)
  \/ \E d \in ds, t \in TripIds : ConfirmCashPayment(d, t)

Sweeper ==
  \/ SweepStart
  \/ SweepRequest
  \/ SweepTripsQuery
  \/ SweepTrip

NextFlow ==
  \/ CreateTripRequest({First(Calls)}, {First(Passengers)}, {First(Procs)},
                       FlowEstimates, Locations)
  \/ \E loc \in Locations : SetDriverOnline(First(Drivers), loc)
  \/ \E role \in Roles, enabled \in BOOLEAN :
       ManagerToggleTrips(role, enabled, First(Procs))
  \/ InvalidateConfigCache
  \/ Lifecycle({First(Drivers)})
  \/ Sweeper
  \/ TickMinute

FlowSpec == Init /\ [][NextFlow]_vars

(* ------------------------------ timeouts -------------------------------- *)
(* One passenger, one driver and one process.  The scheduler starts       *)
(* expireStaleTrips every minute and each run goes through its loops; an  *)
(* invocation of createTripRequest in flight runs to its end; time        *)
(* passes.  Nothing makes a passenger request or a driver answer.         *)
NextLive ==
  \/ CreateTripRequest({First(Calls)}, {First(Passengers)}, {First(Procs)},
                       OneEstimate, Locations)
  \/ \E loc \in Locations : SetDriverOnline(First(Drivers), loc)
  \/ Lifecycle({First(Drivers)})
  \/ Sweeper
  \/ TickMinute

(* the steps of an invocation of createTripRequest after its start *)
CallContinues ==
  \E c \in Calls :
    \/ ConfigRead(c) \/ ConfigInit(c) \/ ConfigCont(c) \/ ActiveCheck(c)
    \/ \E est \in OneEstimate, pickup \in Locations : CreateRequest(c, est, pickup)
    \/ QueryDrivers(c) \/ ClaimTransaction(c)

LiveSpec ==
  /\ Init /\ [][NextLive]_vars
  /\ WF_vars(Sweeper)
  /\ WF_vars(CallContinues)
  /\ SF_vars(TickMinute)

(* ------------------------- sweeper and callables ------------------------ *)
(* One passenger, one driver and one process with the sweeper, any of     *)
(* whose transactions may throw.                                           *)
NextSweep ==
  \/ CreateTripRequest({First(Calls)}, {First(Passengers)}, {First(Procs)},
                       OneEstimate, Locations)
  \/ \E loc \in Locations : SetDriverOnline(First(Drivers), loc)
  \/ Lifecycle({First(Drivers)})
  \/ Sweeper
  \/ SweepRequestFails
  \/ SweepTripFails
  \/ TickMinute

SweepSpec == Init /\ [][NextSweep]_vars

(* ------------------------- concurrent invocations ----------------------- *)
(* One passenger and one driver take a trip to its end; the passenger     *)
(* rates it and the driver confirms the cash, each with up to two         *)
(* invocations in flight at a time.                                        *)
NextRace ==
  \/ CreateTripRequest({First(Calls)}, {First(Passengers)}, {First(Procs)},
                       OneEstimate, Locations)
  \/ \E loc \in Locations : SetDriverOnline(First(Drivers), loc)
  \/ \E t \in TripIds : AcceptTripRequest(First(Drivers), t)
  \/ \E t \in TripIds : DriverArrived(First(Drivers), t)
  \/ \E t \in TripIds : StartTrip(First(Drivers), t)
  \/ \E t \in TripIds : CompleteTrip(First(Drivers), t)
  \/ \E c \in Calls, t \in TripIds : ConfirmRead(c, First(Drivers), t)
  \/ \E c \in Calls : ConfirmWrite(c)
  \/ SubmitRating(Calls, {First(Passengers)})

RaceSpec == Init /\ [][NextRace]_vars

(* ------------------------------- prices --------------------------------- *)
(* One passenger requests trips over every distance of whole tenths of a  *)
(* kilometre up to half the largest distance, and over the distances the  *)
(* pricing examples name, with one driver to match.                       *)
NamedDistances == {1000, 1530, 2000, 3760}
PriceDistances == {d \in WholeTenths : d <= MaxDistance \div 2} \cup NamedDistances
PriceEstimates == [distanceKm : PriceDistances, priceIls : {MINIMUM_PRICE_ILS}]

NextPrice ==
  \/ CreateTripRequest({First(Calls)}, {First(Passengers)}, {First(Procs)},
                       PriceEstimates, {First(Locations)})
  \/ SetDriverOnline(First(Drivers), First(Locations))

PriceSpec == Init /\ [][NextPrice]_vars

(* ------------------------------ dispatch -------------------------------- *)
(* Both drivers go online, with or without a location, and offline along  *)
(* one road whose positions are whole kilometres: next to the pickup, at   *)
(* the search radius from it and one kilometre beyond.                     *)
DispatchLocations ==
  {0, 1, 2, MAX_DRIVER_SEARCH_RADIUS_KM, MAX_DRIVER_SEARCH_RADIUS_KM + 1}

NextDispatch ==
  \/ CreateTripRequest({First(Calls)}, {First(Passengers)}, {First(Procs)},
                       OneEstimate, DispatchLocations)
  \/ \E d \in Drivers, loc \in DispatchLocations \cup {NoLoc} : SetDriverOnline(d, loc)
  \/ \E d \in Drivers : SetDriverOffline(d)

DispatchSpec == Init /\ [][NextDispatch]_vars

(* ------------------------------ properties ----------------------------- *)
TripsOfDriver(d) == {t \in TripIds : trips[t].driverId = d /\ IsActive(t)}

\* C1: every trip in an active status has its driver unavailable and
\* pointing at it (isAvailable = false, currentTripId = the trip).
ActiveTripHoldsDriver ==
  \A t \in TripIds : IsActive(t) =>
    /\ ~drivers[trips[t].driverId].isAvailable
    /\ drivers[trips[t].driverId].currentTripId = t

\* C2: a driver that is unavailable with a non-null currentTripId points at
\* an existing trip in an active status.
ClaimedDriverHasActiveTrip ==
  \A d \in Drivers :
    (drivers[d].exists /\ ~drivers[d].isAvailable /\ drivers[d].currentTripId # NoTrip)
      => IsActive(drivers[d].currentTripId)

\* a trip has completed and released its driver, who is now claimed by
\* another, active trip
ReleasedThenClaimedAgain ==
  \E t \in TripIds, u \in TripIds :
    /\ trips[t].status = "completed"
    /\ trips[u].driverId = trips[t].driverId
    /\ IsActive(u)
    /\ ~drivers[trips[u].driverId].isAvailable
    /\ drivers[trips[u].driverId].currentTripId = u

\* C3: no two trips in an active status share a driver.
OneActiveTripPerDriver ==
  \A d \in Drivers : Cardinality(TripsOfDriver(d)) <= MAX_ACTIVE_TRIPS_PER_DRIVER

\* C4: no passenger has more than one trip in an active status, also when
\* the passenger's requestTrip calls run concurrently.
OneActiveTripPerPassenger ==
  \A pass \in Passengers :
    Cardinality(PassengerActiveTrips(pass)) <= MAX_ACTIVE_TRIPS_PER_PASSENGER

\* C5: once a trip's status is terminal no step changes it.
TerminalMonotone ==
  [][\A t \in TripIds : IsTerminal(t) => trips'[t].status = trips[t].status]_vars

ClaimCommits(c) == ClaimTransaction(c) /\ ClaimResult(c) = "matched"
ClaimFails(c) == ClaimTransaction(c) /\ ClaimResult(c) = "not_found"

\* C7: when a claim transaction commits for a driver, the driver is bound
\* to the new trip alone and every other requestTrip that selected the same
\* driver is about to fail its claim; a failing claim creates no trip and
\* no offer and leaves the driver as it is.
OneClaimPerDriver ==
  [][\A c \in Calls :
       /\ ClaimCommits(c) =>
            /\ ~drivers'[calls[c].sel].isAvailable
            /\ trips'[drivers'[calls[c].sel].currentTripId].status = "pending"
            /\ trips[drivers'[calls[c].sel].currentTripId].status = "none"
            /\ \A c2 \in Calls \ {c} :
                 (calls[c2].pc = "claim" /\ calls[c2].sel = calls[c].sel)
                   => ClaimResult(c2)' = "not_found"
       /\ ClaimFails(c) => UNCHANGED <<drivers, trips, offers>>]_vars

\* two passengers' calls selected the same driver; one has committed its
\* claim and the other is at its claim transaction
ClaimRaceLost ==
  \E c \in Calls, t \in TripIds :
    /\ calls[c].pc = "claim"
    /\ trips[t].status = "pending"
    /\ trips[t].driverId = calls[c].sel
    /\ trips[t].passengerId # calls[c].passengerId
    /\ drivers[calls[c].sel].currentTripId = t
    /\ ClaimResult(c) = "not_found"

MatchedTrip(r) == trips[requests[r].matchedTripId]

(* every matched request names its trip, driver and offer; every trip and *)
(* every offer belongs to a matched request                               *)
ClaimWhole ==
  /\ \A r \in RequestIds : requests[r].status = "matched" =>
       /\ requests[r].matchedTripId # NoTrip
       /\ MatchedTrip(r).status # "none"
       /\ MatchedTrip(r).driverId = requests[r].matchedDriverId
       /\ MatchedTrip(r).passengerId = requests[r].passengerId
       /\ offers[requests[r].matchedTripId] # "none"
  /\ \A t \in TripIds : (trips[t].status # "none" \/ offers[t] # "none") =>
       \E r \in RequestIds :
         requests[r].status = "matched" /\ requests[r].matchedTripId = t

(* the step that matches a request creates the trip and the offer, both   *)
(* pending, and claims the driver; nothing else creates a trip or an offer *)
ClaimStep ==
  /\ \A r \in RequestIds :
       (requests[r].status # "matched" /\ requests'[r].status = "matched") =>
         LET t == requests'[r].matchedTripId
             d == requests'[r].matchedDriverId
         IN /\ requests[r].status = "open"
            /\ trips[t].status = "none" /\ trips'[t].status = "pending"
            /\ trips'[t].driverId = d
            /\ offers[t] = "none" /\ offers'[t] = "pending"
            /\ ~drivers'[d].isAvailable /\ drivers'[d].currentTripId = t
  /\ \A t \in TripIds :
       ((trips[t].status = "none" /\ trips'[t].status # "none")
          \/ (offers[t] = "none" /\ offers'[t] # "none")) =>
         \E r \in RequestIds :
           /\ requests[r].status = "open" /\ requests'[r].status = "matched"
           /\ requests'[r].matchedTripId = t

\* C8: a request is matched exactly when its trip, the trip's offer and the
\* driver claim were made, all in the one step that matched it.
ClaimAtomic == []ClaimWhole /\ [][ClaimStep]_vars

\* a request has just been matched: its trip and offer are pending and the
\* driver is claimed by the trip
JustMatched ==
  \E r \in RequestIds :
    /\ requests[r].status = "matched"
    /\ MatchedTrip(r).status = "pending"
    /\ offers[requests[r].matchedTripId] = "pending"
    /\ ~drivers[requests[r].matchedDriverId].isAvailable
    /\ drivers[requests[r].matchedDriverId].currentTripId = requests[r].matchedTripId

CreatesDocument ==
  \/ \E r \in RequestIds : requests[r].status = "none" /\ requests'[r].status # "none"
  \/ \E t \in TripIds : trips[t].status = "none" /\ trips'[t].status # "none"

(* system/config exists and holds tripsEnabled: false *)
StoredFalse == config.exists /\ ~config.tripsEnabled

Admitted(c) == calls[c].pc \in {"idle", "cfgRead", "cfgInit", "cfgCont"} /\ calls'[c].pc = "activeCheck"

StartedLongAfterToggle(c) ==
  /\ falseAge # NoTime
  /\ calls[c].age # NoTime
  /\ (falseAge - calls[c].age) * MS_PER_SECOND > CACHE_TTL_MS

\* C10: no requestTrip whose admission check starts more than the cache TTL
\* after the toggle to false committed passes the check.
KillSwitchPropagates ==
  \A c \in Calls : calls[c].pc = "activeCheck" => ~StartedLongAfterToggle(c)

(* a transition of an existing trip, or a write of the sweeper *)
TripTransition ==
  \/ Lifecycle(Drivers)
  \/ SweepRequest
  \/ SweepTrip

(* the preconditions of the driver's transitions, read off the documents *)
CanAccept(d, t) == OfferExists(d, t) /\ offers[t] = "pending" /\ trips[t].status = "pending"
CanComplete(d, t) == trips[t].driverId = d /\ trips[t].status = "in_progress"
CanConfirm(d, t) ==
  trips[t].driverId = d /\ trips[t].status = "completed" /\ trips[t].paymentStatus # "paid"

\* C11: whatever the kill switch says, a transition of an existing trip
\* whose precondition holds succeeds (accept, reject, complete, confirm
\* cash payment), and no transition and no sweeper write reads or changes
\* system/config or a config cache.
KillSwitchGatesCreationOnly ==
  /\ [](\A d \in Drivers, t \in TripIds :
          /\ CanAccept(d, t) => AcceptResult(d, t) = "ok" /\ RejectResult(d, t) = "ok"
          /\ CanComplete(d, t) => CompleteResult(d, t) = "ok"
          /\ CanConfirm(d, t) => ConfirmResult(d, t) = "ok")
  /\ [][TripTransition => UNCHANGED <<config, cache>>]_vars

\* the switch is off, and a trip accepted before it was turned off is
\* completed and paid
PaidPastKillSwitch ==
  /\ StoredFalse
  /\ \E t \in TripIds :
       /\ trips[t].status = "completed"
       /\ trips[t].paymentStatus = "paid"
       /\ falseAge # NoTime
       /\ trips[t].acceptedAge > falseAge

(* the invocation reads the stored false and is rejected in this step *)
RejectedBySwitch(c) == ConfigCont(c) /\ ~calls[c].cfgVal

\* C12: a requestTrip rejected by the kill switch fails with the kind
\* service_disabled, which is not the kind of the active-trip cap, and
\* creates no document.
KillSwitchErrorKind ==
  [][\A c \in Calls : RejectedBySwitch(c) =>
       /\ AdmissionResult(calls[c].cfgVal) = "service_disabled"
       /\ AdmissionResult(calls[c].cfgVal) # ErrorKind(ACTIVE_TRIP_ERROR)
       /\ UNCHANGED store]_vars

\* C13: every trip carries fareAmount = estimatedPriceIls = the server's
\* price of its estimatedDistanceKm, a request is created whatever price
\* the client sent, and the payment of a trip has the trip's fareAmount.
ServerAuthoritativePricing ==
  /\ \A t \in TripIds : trips[t].status # "none" =>
       /\ trips[t].estimatedPriceIls = calculatePrice(trips[t].estimatedDistanceKm)
       /\ trips[t].fareAmount = trips[t].estimatedPriceIls
  /\ \A r \in RequestIds : requests[r].status # "none" =>
       requests[r].estimatedPriceIls = calculatePrice(requests[r].estimatedDistanceKm)
  /\ \A t \in TripIds : payments[t].status # "none" =>
       payments[t].amount = trips[t].fareAmount
  /\ \A c \in Calls : calls[c].pc = "createReq" =>
       \A est \in FlowEstimates : ENABLED CreateRequest(c, est, First(Locations))

\* a completed trip and its payment carry a server price that no client
\* estimate of this specification named
PaidServerPrice ==
  \E t \in TripIds :
    /\ trips[t].status = "completed"
    /\ payments[t].status = "pending"
    /\ payments[t].amount = trips[t].fareAmount
    /\ \A est \in FlowEstimates : ClientPrice(est) # trips[t].fareAmount

(* ceil(d * 0.5) shekels of a distance in hundredths of a kilometre *)
HalfShekelPerKm(d) == (d + RATE_KM_PER_ILS * HundredthsPerKm - 1) \div (RATE_KM_PER_ILS * HundredthsPerKm)

Candidate(d) ==
  /\ drivers[d].exists /\ drivers[d].isOnline /\ drivers[d].isAvailable
  /\ drivers[d].lastLocation # NoLoc

PickupOf(c) == requests[calls[c].requestId].pickup
Away(c, d) == Distance(PickupOf(c), drivers[d].lastLocation)

(* the invocation's driver search selects a driver in this step *)
Selects(c) == calls[c].pc = "queryDrivers" /\ calls'[c].pc = "claim"

\* C15: the driver a request selects is online and available with a
\* location, no candidate is nearer to the pickup, among the candidates at
\* the same distance it comes first in query order, and the trip of the
\* match is that driver's.
NearestCandidateSelected ==
  /\ [][\A c \in Calls : Selects(c) =>
          /\ Candidate(calls'[c].sel)
          /\ \A e \in Drivers : Candidate(e) =>
               /\ Away(c, calls'[c].sel) <= Away(c, e)
               /\ (Away(c, calls'[c].sel) = Away(c, e) => calls'[c].sel <= e)]_vars
  /\ [][\A c \in Calls, t \in TripIds :
          (calls[c].pc = "claim" /\ trips[t].status = "none" /\ trips'[t].status # "none")
            => trips'[t].driverId = calls[c].sel]_vars

\* a request is matched to the later driver in query order while the
\* earlier one is a candidate farther from the pickup
NearerLaterDriverMatched ==
  \E r \in RequestIds, d, e \in Drivers :
    /\ requests[r].status = "matched" /\ requests[r].matchedDriverId = d
    /\ trips[requests[r].matchedTripId].driverId = d
    /\ e < d /\ Candidate(e)
    /\ drivers[d].lastLocation # NoLoc
    /\ Distance(requests[r].pickup, drivers[e].lastLocation)
         > Distance(requests[r].pickup, drivers[d].lastLocation)

\* C16: the driver a request selects is never farther from the pickup than
\* the search radius.
SearchRadiusRespected ==
  [][\A c \in Calls : Selects(c) =>
       Away(c, calls'[c].sel) <= MAX_DRIVER_SEARCH_RADIUS_KM]_vars

(* the invocation's driver search runs in this step *)
Searches(c) == calls[c].pc = "queryDrivers" /\ calls'[c] # calls[c]

OfferExpired(t) ==
  trips[t].status = "pending" /\ trips[t].createdAge > DRIVER_RESPONSE_TIMEOUT_SECONDS

\* C18: a pending trip whose offer has passed expiresAt (20 s after its
\* creation) eventually becomes no_driver_available with its driver
\* released, when the driver does not answer: no trip stays pending for ever.
UnansweredOfferExpires ==
  \A t \in TripIds :
    OfferExpired(t) ~>
      \/ trips[t].status \in {"accepted", "rejected"}
      \/ /\ trips[t].status = "no_driver_available"
         /\ drivers[trips[t].driverId].isAvailable

(* the sweeper's transaction on an accepted trip runs in this step *)
SweepsTrip(t) == sweeper.pc = "trips" /\ sweeper' # sweeper /\ t = First(sweeper.todo)

\* C19: a trip accepted for longer than 300 s does not stay accepted, and
\* the sweeper's step on it sets cancelled_by_system with reason
\* driver_no_show and releases its driver in the same step.
NoShowCancelled ==
  /\ \A t \in TripIds :
       (trips[t].status = "accepted" /\ trips[t].acceptedAge > DRIVER_ARRIVAL_TIMEOUT_SECONDS)
         ~> (trips[t].status # "accepted")
  /\ [][\A t \in TripIds : SweepsTrip(t) =>
          /\ trips'[t].status = "cancelled_by_system"
          /\ trips'[t].cancellationReason = "driver_no_show"
          /\ drivers'[trips[t].driverId].isAvailable
          /\ drivers'[trips[t].driverId].currentTripId = NoTrip]_vars
  /\ [][\A t \in TripIds :
          (trips[t].status = "accepted" /\ trips'[t].status = "cancelled_by_system")
            => trips[t].acceptedAge > DRIVER_ARRIVAL_TIMEOUT_SECONDS]_vars

\* a trip accepted more than 300 s ago stands cancelled for the no-show
\* with its driver free again
NoShowReleased ==
  \E t \in TripIds :
    /\ trips[t].status = "cancelled_by_system"
    /\ trips[t].cancellationReason = "driver_no_show"
    /\ trips[t].acceptedAge > DRIVER_ARRIVAL_TIMEOUT_SECONDS
    /\ drivers[trips[t].driverId].isAvailable
    /\ drivers[trips[t].driverId].currentTripId = NoTrip

\* C20: an open request older than 120 s eventually is expired with reason
\* no_driver_found, and no request is expired at 120 s or younger.
OpenRequestExpires ==
  /\ \A r \in RequestIds :
       (requests[r].status = "open" /\ requests[r].createdAge > TRIP_SEARCH_TIMEOUT_SECONDS)
         ~> (requests[r].status = "expired" /\ requests[r].expirationReason = "no_driver_found")
  /\ [][\A r \in RequestIds :
          (requests[r].status # "expired" /\ requests'[r].status = "expired")
            => /\ requests[r].status = "open"
               /\ requests[r].createdAge > TRIP_SEARCH_TIMEOUT_SECONDS]_vars

\* one request stands expired for want of a driver while a request made
\* exactly 120 s ago is still open with the sweeper idle
ExpiredBesideYoung ==
  /\ sweeper.pc = "idle"
  /\ \E r, q \in RequestIds :
       /\ requests[r].status = "expired"
       /\ requests[r].expirationReason = "no_driver_found"
       /\ requests[q].status = "open"
       /\ requests[q].createdAge = TRIP_SEARCH_TIMEOUT_SECONDS

(* the sweeper's transaction on a stale request runs in this step *)
SweepsRequest(r) ==
  sweeper.pc = "requests" /\ sweeper.todo # {} /\ sweeper' # sweeper
    /\ r = First(sweeper.todo)

\* C21: the sweeper's transaction on a request writes only if the request
\* is still open, its transaction on a trip writes and releases the driver
\* only if the trip is still accepted, and a request that has left open
\* never changes status again.
SweeperRechecks ==
  /\ [][\A r \in RequestIds : (SweepsRequest(r) /\ requests[r].status # "open")
            => UNCHANGED store]_vars
  /\ [][\A t \in TripIds : (SweepsTrip(t) /\ trips[t].status # "accepted")
            => UNCHANGED store]_vars
  /\ [][\A r \in RequestIds : requests[r].status \notin {"none", "open"}
            => requests'[r].status = requests[r].status]_vars

(* a transaction of the sweeper on document x has thrown in this step *)
RequestTxFailed(r) == SweepsRequest(r) /\ requests'[r].status = "open"
TripTxFailed(t) == SweepsTrip(t) /\ trips'[t] = trips[t]

\* C22: a transaction of the sweeper that throws writes nothing, the run
\* goes on with the other documents it selected, and the sweep of the
\* accepted trips follows the sweep of the requests.
SweeperBatchSurvives ==
  /\ [][\A r \in RequestIds : RequestTxFailed(r) =>
          /\ UNCHANGED store
          /\ sweeper' = [pc |-> "requests", todo |-> sweeper.todo \ {r}]]_vars
  /\ [][\A t \in TripIds : TripTxFailed(t) =>
          /\ UNCHANGED store
          /\ sweeper'.todo = sweeper.todo \ {t}
          /\ sweeper'.pc = (IF sweeper.todo = {t} THEN "idle" ELSE "trips")]_vars
  /\ [][(sweeper.pc = "requests" /\ sweeper'.pc # "requests") =>
          /\ sweeper.todo = {}
          /\ sweeper'.todo = StaleAcceptedTrips]_vars

\* the run is at the accepted trip it selected after the transaction of a
\* stale request has thrown
SweepPastFailure ==
  /\ sweeper.pc = "trips" /\ sweeper.todo # {}
  /\ \E r \in RequestIds :
       requests[r].status = "open" /\ requests[r].createdAge > TRIP_SEARCH_TIMEOUT_SECONDS

Cancellable(t) == trips[t].status \in {"pending", "accepted"}

CancelSucceeds ==
  \A t \in TripIds : Cancellable(t) =>
    /\ PassengerCancelResult(trips[t].passengerId, t) = "ok"
    /\ DriverCancelResult(trips[t].driverId, t) = "ok"
    /\ ENABLED PassengerCancelTrip(trips[t].passengerId, t)
    /\ ENABLED DriverCancelTrip(trips[t].driverId, t)

\* C25: a forced cancellation by a manager or an admin of a trip in an
\* active status succeeds and cancels the trip and releases its driver
\* together; from any other role or on a trip that is not active it is
\* refused with forbidden.
ManagerCancelSucceeds ==
  \A t \in TripIds : trips[t].status # "none" =>
    \A role \in Roles :
      /\ (role \in {"manager", "admin"} /\ IsActive(t))
           => (ManagerCancelResult(role, t) = "ok" /\ ENABLED ManagerForceCancelTrip(role, t))
      /\ (role \notin {"manager", "admin"} \/ ~IsActive(t))
           => ManagerCancelResult(role, t) = "forbidden"

(* the driver's document after a release *)
Released(doc) == doc.isAvailable /\ doc.currentTripId = NoTrip

\* C26: the step that rejects a pending offer sets the offer to rejected,
\* the trip to no_driver_available and the driver released together; a
\* rejection of an offer that is no longer pending answers success and has
\* no step that changes a document, so rejecting again changes nothing.
RejectIdempotent ==
  /\ [][\A t \in TripIds :
          (offers[t] = "pending" /\ offers'[t] = "rejected") =>
             /\ trips[t].status = "pending"
             /\ trips'[t].status = "no_driver_available"
             /\ Released(drivers'[trips[t].driverId])]_vars
  /\ [](\A t \in TripIds, d \in Drivers :
          (OfferExists(d, t) /\ offers[t] # "pending") =>
             /\ RejectResult(d, t) = "noop"
             /\ ~ENABLED RejectTripRequest(d, t))

\* a rejected offer with its trip at no_driver_available and its driver
\* free, where a further rejection answers success without a write
RejectedOnce ==
  \E t \in TripIds :
    /\ offers[t] = "rejected"
    /\ trips[t].status = "no_driver_available"
    /\ Released(drivers[trips[t].driverId])
    /\ RejectResult(trips[t].driverId, t) = "noop"

\* C27: an acceptance by a driver who is not the trip's driver fails with
\* forbidden, and an acceptance succeeds only for the trip's driver on a
\* pending trip with a pending offer.
AcceptWrongDriverForbidden ==
  \A t \in TripIds, d \in Drivers : trips[t].status # "none" =>
    /\ d # trips[t].driverId => AcceptResult(d, t) = "forbidden"
    /\ AcceptResult(d, t) = "ok" =>
         (d = trips[t].driverId /\ trips[t].status = "pending" /\ offers[t] = "pending")

\* C28: the payment of a trip comes to exist in the step that takes the
\* trip from in_progress to completed and in no other step, is never
\* removed, and exists whenever the trip is completed.
PaymentIffCompleted ==
  /\ [][\A t \in TripIds :
          (payments[t].status = "none" /\ payments'[t].status # "none")
            <=> (trips[t].status # "completed" /\ trips'[t].status = "completed")]_vars
  /\ [][\A t \in TripIds :
          (trips[t].status # "completed" /\ trips'[t].status = "completed")
            => trips[t].status = "in_progress"]_vars
  /\ [][\A t \in TripIds :
          payments[t].status # "none" => payments'[t].status # "none"]_vars
  /\ [](\A t \in TripIds : trips[t].status = "completed" => payments[t].status # "none")

\* a completed trip with its payment beside a trip that was never
\* completed and has no payment
PaymentOfCompletedOnly ==
  \E t, u \in TripIds :
    /\ trips[t].status = "completed" /\ payments[t].status = "pending"
    /\ trips[u].status \in {"pending", "accepted", "no_driver_available"}
    /\ payments[u].status = "none"

\* C29: completeTrip on a completed trip fails with forbidden and has no
\* step that changes a document, and a payment once written is never
\* written again.
CompleteOnce ==
  /\ [](\A t \in TripIds, d \in Drivers : trips[t].status = "completed" =>
          /\ CompleteResult(d, t) = "forbidden"
          /\ ~ENABLED CompleteTrip(d, t))
  /\ [][\A t \in TripIds :
          payments[t].status # "none" => payments'[t] = payments[t]]_vars

\* a completed trip with its payment, whose driver is refused a second
\* completion
CompletedRefusesAgain ==
  \E t \in TripIds :
    /\ trips[t].status = "completed"
    /\ payments[t].status # "none"
    /\ CompleteResult(trips[t].driverId, t) = "forbidden"

\* C30: the payment of a trip has status paid exactly when the trip's
\* paymentStatus is paid.
PaymentMirrorsTrip ==
  \A t \in TripIds :
    (payments[t].status = "paid") <=> (trips[t].paymentStatus = "paid")

(* what areTripsEnabled() answers in process p when the store can be read *)
CheckAnswer(p) ==
  IF CacheValid(p) THEN cache[p].tripsEnabled ELSE ConfigValue(config)

\* C31: once the manager's toggle has returned in the process, a kill
\* switch check made in that process answers the stored value, whatever
\* admission checks were reading the configuration during the toggle.
FreshAfterToggle ==
  (toggle.pc = "idle" /\ config.exists) =>
     CheckAnswer(First(Procs)) = config.tripsEnabled

(* the manager's write of system/config happens in this step *)
ToggleWrites == toggle.pc = "idle" /\ toggle'.pc = "invalidate"

\* C32: the value of tripsEnabled that system/config yields changes only
\* in the write of a manager's toggle: once false it stays false until a
\* toggle sets it to true.
ConfigSingleWriter ==
  [][ConfigValue(config') # ConfigValue(config) => ToggleWrites]_vars

(* a step of the driver app's toggle: only drivers/<d> is written *)
DriverToggles(d) ==
  /\ drivers'[d] # drivers[d]
  /\ \A e \in Drivers \ {d} : drivers'[e] = drivers[e]
  /\ UNCHANGED <<requests, trips, offers, payments>>

\* C33: the online/offline toggle of a driver who is on a trip leaves
\* isAvailable and currentTripId as they were, so going online never
\* makes a driver available while currentTripId is set.
ToggleKeepsClaim ==
  [][\A d \in Drivers :
       (DriverToggles(d) /\ drivers[d].currentTripId # NoTrip) =>
          /\ drivers'[d].isAvailable = drivers[d].isAvailable
          /\ drivers'[d].currentTripId = drivers[d].currentTripId]_vars

\* C34: an available driver is online, also after a driver who went
\* offline during a trip has been released.
AvailableImpliesOnline ==
  \A d \in Drivers : drivers[d].isAvailable => drivers[d].isOnline

\* C35: a trip is rated at most once: a stored rating is never written
\* again, whatever invocations of submitRating run concurrently.
RatingWrittenOnce ==
  [][\A t \in TripIds :
       trips[t].rating # NoRating => trips'[t].rating = trips[t].rating]_vars

\* C36: a trip whose paymentStatus is paid has status completed.
PaidIsCompleted ==
  \A t \in TripIds :
    trips[t].paymentStatus = "paid" => trips[t].status = "completed"

(* invocation c of confirmCashPayment returns success in this step *)
ConfirmSucceeds(c) == calls[c].pc = "confirmWrite" /\ calls'[c].pc = "idle"

\* C37: every invocation of confirmCashPayment that returns success has
\* moved the trip from pending to paid, so of two concurrent invocations
\* for one trip at most one succeeds.
ConfirmPaysOnce ==
  [][\A c \in Calls :
       ConfirmSucceeds(c) =>
          /\ trips[calls[c].tripId].paymentStatus = "pending"
          /\ trips'[calls[c].tripId].paymentStatus = "paid"]_vars

\* C38: the offer of a trip is pending exactly when the trip is pending,
\* and no step changes an offer without changing the status of its trip.
OfferPendingIffTripPending ==
  /\ [](\A t \in TripIds : offers[t] = "pending" <=> trips[t].status = "pending")
  /\ [][\A t \in TripIds :
          offers'[t] # offers[t] => trips'[t].status # trips[t].status]_vars

OfferLeftPendingWithTrip ==
  \E t \in TripIds :
    /\ offers[t] \in {"accepted", "rejected"}
    /\ trips[t].status \in {"accepted", "no_driver_available"}

\* C39: no transaction of a callable is aborted by the order of its own
\* reads and writes: no call of completeTrip, acceptTripRequest,
\* rejectTripRequest or of a cancellation gets the result "internal".
NoSelfAbortedTransaction ==
  \A t \in TripIds :
    /\ \A d \in Drivers :
         /\ AcceptResult(d, t) # "internal"
         /\ RejectResult(d, t) # "internal"
         /\ CompleteResult(d, t) # "internal"
         /\ DriverCancelResult(d, t) # "internal"
    /\ \A pass \in Passengers : PassengerCancelResult(pass, t) # "internal"
    /\ \A role \in Roles : ManagerCancelResult(role, t) # "internal"

(* invocation c runs its claim transaction in this step *)
ClaimRuns(c) == calls[c].pc = "claim" /\ calls'[c].pc = "idle"

(* the driver that invocation c selected is missing, offline or claimed *)
SelectedDriverGone(c) ==
  \/ ~drivers[calls[c].sel].exists
  \/ ~drivers[calls[c].sel].isOnline
  \/ ~drivers[calls[c].sel].isAvailable

\* C40: a claim transaction that finds its driver missing, offline or
\* unavailable writes nothing: no trip, no offer, the driver as it was,
\* and the request created before it still open.
FailedClaimWritesNothing ==
  [][\A c \in Calls :
       (ClaimRuns(c) /\ SelectedDriverGone(c)) =>
          /\ UNCHANGED <<drivers, trips, offers, payments, requests>>
          /\ requests'[calls[c].requestId].status = "open"]_vars

\* the selected driver went offline, or was claimed, between the search
\* and the claim transaction of an invocation whose request is open
ClaimAboutToAbort ==
  \E c \in Calls :
    /\ calls[c].pc = "claim"
    /\ requests[calls[c].requestId].status = "open"
    /\ drivers[calls[c].sel].exists
    /\ ~drivers[calls[c].sel].isOnline
====
